---- MODULE Spec2Model ----
(***************************************************************************)
(* Client-portal REST backend: the route layer (server/routes.ts), the     *)
(* authentication and admin middleware, and the repository layer           *)
(* (server/storage.ts) over the relational tables.                         *)
(*                                                                         *)
(* One action per HTTP endpoint.  An action is the whole request: the      *)
(* isAuthenticated middleware, the isAdmin middleware, the handler, every  *)
(* storage call it makes and the response it sends.  The request and its   *)
(* response are kept in resp until the client has read them (Deliver);     *)
(* requests are served one at a time.                                      *)
(***************************************************************************)
EXTENDS Integers, Sequences, FiniteSets, TLC

\* ------------------------------------------------------------------ bounds

\* The clock runs from 1 to MaxTime.
MaxTime == 2
\* Rows ever inserted into one table (the serial id runs from 1 to MaxRows).
MaxRows == 2
\* Steps of one run that change the database or the clock.
MaxSteps == 3
\* Milliseconds a liveness query may take.
MaxLatency == 1

\* ------------------------------------------------------------------ values

UserIds == {"alice", "bob"}
\* req.user.claims.sub is undefined
NoSub == "(undefined)"
Subs == UserIds \cup {NoSub}
\* a JSON body that does not carry the field
Absent == "(absent)"
Roles == {"client", "admin"}
ApptStatuses == {"pending", "confirmed"}
RowIds == 1..MaxRows
Times == 1..MaxTime

VARIABLES
    users,            \* table users
    appointments,     \* table appointments
    serviceRequests,  \* table service_requests
    invoices,         \* table invoices
    contactSubmissions, \* table contact_submissions
    serial,           \* the serial (auto-increment) counter of each table
    now,              \* the clock: Date.now() / new Date() / defaultNow()
    steps,            \* the steps of this run that changed the database or the clock
    resp,             \* the request being answered and its response
    deleted,          \* the ids for which DELETE /api/appointments/:id answered 204
    env,              \* process.env: the three connection-string variables
    proc,             \* the process: starting, crashed, running or exited
    listening,        \* whether the HTTP server of the process is listening
    pool,             \* primaryPool and replicaPool: connection string and state
    reachable,        \* whether the database behind each pool answers right now
    handler,          \* the closeConnections call started by each signal
    health,           \* the checkClusterHealth call and its results
    held,             \* connections of each pool checked out by untracked callers
    acq               \* the tracked acquisition requests: their pool and state

\* The state of the connection-pool module (db-cluster).
cluster == <<env, proc, listening, pool, reachable, handler, health>>
\* The connections checked out of the pools.
poolUse == <<held, acq>>
tables == <<users, appointments, serviceRequests, invoices, contactSubmissions, serial, steps>>
vars == <<users, appointments, serviceRequests, invoices, contactSubmissions, serial, now,
          steps, resp, deleted, cluster, poolUse>>

\* ------------------------------------------------------------------ sessions

\* What the session middleware puts on the request: req.isAuthenticated(),
\* user.expires_at (0: not set), user.refresh_token, user.claims.sub.
NoSession == [authed |-> FALSE, expires_at |-> 0, refresh_token |-> FALSE, sub |-> NoSub]
\* The sessions requests are made with: none; a session that stays valid, for
\* each value of sub; bob's session without expires_at (with a refresh token);
\* and bob's sessions expiring at time 1, with and without a refresh token.
Sessions ==
    {NoSession}
    \cup [authed : {TRUE}, expires_at : {MaxTime}, refresh_token : {FALSE}, sub : Subs]
    \cup [authed : {TRUE}, expires_at : {0}, refresh_token : {TRUE}, sub : {"bob"}]
    \cup [authed : {TRUE}, expires_at : {1}, refresh_token : BOOLEAN, sub : {"bob"}]

\* isAuthenticated: "401", or "next" when the request goes on to the next handler.
\* refreshOk: whether client.refreshTokenGrant resolves (read only when it is called).
\* (mutant: the expiry of the token is not looked at)
MutAuthSkipsExpiry(s, refreshOk) ==
    IF ~s.authed \/ s.expires_at = 0 THEN "401" ELSE "next"
isAuthenticated(s, refreshOk) ==
    IF ~s.authed \/ s.expires_at = 0 THEN "401"
    ELSE IF now <= s.expires_at THEN "next"
    ELSE IF ~s.refresh_token THEN "401"
    ELSE IF refreshOk THEN "next"
    ELSE "401"

\* Whether isAuthenticated called refreshTokenGrant, and how it ended.
RefreshOutcome(s, refreshOk) ==
    IF s.authed /\ s.expires_at # 0 /\ now > s.expires_at /\ s.refresh_token
    THEN (IF refreshOk THEN "ok" ELSE "failed")
    ELSE "none"

\* ------------------------------------------------------------------ request bodies

\* The fields of a JSON body the handlers and the tables read.  wellFormed: the
\* body carries the required fields of the entity's insert schema with the
\* right types.
NoBody == [userId |-> Absent, id |-> 0, status |-> Absent, role |-> Absent,
           isActive |-> Absent, scheduledAt |-> 0, wellFormed |-> TRUE]

\* ------------------------------------------------------------------ responses

\* The request that was made and the response it got.  id, uid: the :id path parameter (of a row, of a user);
\* req: the JSON body; calls: the storage operations the request executed;
\* threw: a storage operation of the request threw (the catch block ran);
\* refresh: whether isAuthenticated called refreshTokenGrant and how it ended;
\* body: what the response carries:
\*   "rows" a list of rows, "row" one row, "undefined" res.json(undefined),
\*   "message" a fixed message, "fieldErrors" a message and the list of field
\*   errors, "generic" a fixed failure message, "detail" a failure message with
\*   the exception's own message, "empty" no body.
Reply(ep, s, refresh, id, uid, req) ==
    [ep |-> ep, sess |-> s, refresh |-> refresh,
     status |-> 0, body |-> "none", rows |-> <<>>, calls |-> {}, threw |-> FALSE, sent |-> 0,
     id |-> id, uid |-> uid, req |-> req]

\* No request is being answered.
NoRequest == Reply("none", NoSession, "none", 0, NoSub, NoBody)
Idle == resp = NoRequest
\* A step of the API starts between two requests and leaves the connection-pool
\* module alone: routes.ts does not import it.
ApiStep == Idle /\ UNCHANGED <<cluster, poolUse, deleted>>

\* A step that changes the database or the clock.
Step == steps < MaxSteps /\ steps' = steps + 1

\* (mutant: the delete answered as the API reference documents it, 200 with a
\* message, instead of 204 with no body)
MutSendDocumentedDelete(r, status, body) ==
    IF status = 204 THEN [r EXCEPT !.status = 200, !.body = "message", !.sent = @ + 1]
    ELSE [r EXCEPT !.status = status, !.body = body, !.sent = @ + 1]

\* (mutant: a catch block that only logs, so that a request whose storage call
\* threw is never answered)
MutSendNothingOnThrow(r, status, body) ==
    IF r.threw THEN r
    ELSE [r EXCEPT !.status = status, !.body = body, !.sent = @ + 1]

\* res.status(status).json(body): one more response is sent for the request.
Send(r, status, body) == [r EXCEPT !.status = status, !.body = body, !.sent = @ + 1]
SendRows(r, status, body, rows) ==
    [r EXCEPT !.status = status, !.body = body, !.rows = rows, !.sent = @ + 1]
Called(r, op) == [r EXCEPT !.calls = @ \cup {op}]
Threw(r) == [r EXCEPT !.threw = TRUE]

\* ------------------------------------------------------------------ storage

\* The storage operations that only SELECT.
StorageReads ==
    {"getUser", "getAppointments", "getServiceRequests", "getInvoices",
     "getContactSubmissions", "getAllUsers", "getAllAppointments", "getAllServiceRequests"}

\* (mutant: storage.ts after the rewrite of storage-cluster-fix.ts, reads on
\* replicaDb and writes on primaryDb)
MutHandleAfterFix(op) == IF op \in StorageReads THEN "replicaDb" ELSE "primaryDb"

\* The database handle a storage operation queries: every one of them uses the
\* imported db.
dbHandle(op) == "db"

\* The pool behind a database handle: db is primaryDb.
PoolBehind(h) == IF h = "replicaDb" THEN "replica" ELSE "primary"

\* All orderings of the rows of S that are descending in Key: what
\* ORDER BY ... DESC may return (rows with equal keys come in any order).
\* (mutant: the ORDER BY clause is dropped)
MutListingsUnordered(S, key) ==
    {f \in [1..Cardinality(S) -> S] :
        \A i, j \in 1..Cardinality(S) : i # j => f[i] # f[j]}
Listings(S, key) ==
    {f \in [1..Cardinality(S) -> S] :
        /\ \A i, j \in 1..Cardinality(S) : i # j => f[i] # f[j]
        /\ \A i, j \in 1..Cardinality(S) : i < j => f[i][key] >= f[j][key]}

ByScheduledAt == "scheduledAt"
ByCreatedAt == "createdAt"

\* DatabaseStorage.getUser: the rows the select returns (const [user] = rows).
\* (mutant: the where clause is dropped)
MutGetUserAny(id) == users
getUser(id) == {u \in users : u.id = id}

UserIdsStored == {u.id : u \in users}

\* insert(users).values(userData).onConflictDoUpdate({ target: users.id,
\* set: { ...userData, updatedAt: new Date() } }) on table T at time at.
\* (mutant: a plain insert, without the conflict clause)
MutUpsertInserts(T, at, id, firstName) ==
    T \cup {[id |-> id, firstName |-> firstName, role |-> "client",
             isActive |-> TRUE, createdAt |-> at, updatedAt |-> at]}
\* (mutant: on conflict the stored row is replaced by a freshly inserted one,
\* with the column defaults)
MutUpsertReplacesRow(T, at, id, firstName) ==
    {u \in T : u.id # id}
    \cup {[id |-> id, firstName |-> firstName, role |-> "client",
            isActive |-> TRUE, createdAt |-> at, updatedAt |-> at]}
UpsertedUsers(T, at, id, firstName) ==
    IF id \in {u.id : u \in T}
    THEN {IF u.id = id THEN [u EXCEPT !.firstName = firstName, !.updatedAt = at] ELSE u
            : u \in T}
    ELSE T \cup {[id |-> id, firstName |-> firstName, role |-> "client",
                  isActive |-> TRUE, createdAt |-> at, updatedAt |-> at]}

\* DatabaseStorage.upsertUser
upsertUser(id, firstName) == UpsertedUsers(users, now, id, firstName)

\* DatabaseStorage.getAppointments
\* (mutant: the owner filter is dropped)
MutGetAppointmentsAll(userId) == appointments
getAppointmentsRows(userId) == {a \in appointments : a.userId = userId}

\* The rows an update or delete of (id, userId) matches.
\* (mutant: the row is matched by id alone)
MutMatchById(id, userId) == {a \in appointments : a.id = id}
MatchAppointment(id, userId) == {a \in appointments : a.id = id /\ a.userId = userId}

\* .set({ ...data, updatedAt: new Date() }) on one row: every column the body
\* carries is overwritten.
SetAppointment(a, data) ==
    [a EXCEPT !.userId = IF data.userId = Absent THEN @ ELSE data.userId,
              !.id = IF data.id = 0 THEN @ ELSE data.id,
              !.status = IF data.status = Absent THEN @ ELSE data.status,
              !.updatedAt = now]

\* The table after updateAppointment(id, userId, data).
UpdatedAppointments(id, userId, data) ==
    {IF a \in MatchAppointment(id, userId) THEN SetAppointment(a, data) ELSE a
        : a \in appointments}

\* The constraints of table appointments that an update of the matched rows can
\* break: primary key (id), and user_id references users.id.  The database
\* checks them on the rows the statement writes.
UpdateViolates(id, userId, data) ==
    \E a \in MatchAppointment(id, userId) :
        \/ SetAppointment(a, data).userId \notin UserIdsStored
        \/ \E b \in appointments \ {a} : b.id = SetAppointment(a, data).id

\* DatabaseStorage.deleteAppointment: the table after the delete.
DeletedAppointments(id, userId) == appointments \ MatchAppointment(id, userId)

\* The constraints an insert of row into table T can break: primary key (id),
\* and, for the owned tables, user_id references users.id.
\* (mutant: the foreign key is not declared)
MutInsertChecksKeyOnly(T, row) == \E b \in T : b.id = row.id
InsertViolates(T, row) ==
    \/ \E b \in T : b.id = row.id
    \/ row.userId \notin UserIdsStored

\* DatabaseStorage.getServiceRequests, getInvoices
getServiceRequestsRows(userId) == {r \in serviceRequests : r.userId = userId}
getInvoicesRows(userId) == {r \in invoices : r.userId = userId}

\* DatabaseStorage.updateUserRole: .set({ role, updatedAt }).where(id = userId)
updateUserRole(userId, role) ==
    {IF u.id = userId THEN [u EXCEPT !.role = role, !.updatedAt = now] ELSE u : u \in users}

\* DatabaseStorage.updateUserStatus: .set({ isActive, updatedAt }).where(id = userId);
\* a key whose value is undefined is left out of the SET clause.
\* (mutant: the update also writes the role column back to its default)
MutStatusResetsRole(userId, isActive) ==
    {IF u.id = userId
     THEN [u EXCEPT !.isActive = IF isActive = Absent THEN @ ELSE (isActive = "true"),
                    !.role = "client", !.updatedAt = now]
     ELSE u : u \in users}
updateUserStatus(userId, isActive) ==
    {IF u.id = userId
     THEN [u EXCEPT !.isActive = IF isActive = Absent THEN @ ELSE (isActive = "true"),
                    !.updatedAt = now]
     ELSE u : u \in users}

\* DatabaseStorage.markContactSubmissionRead: .set({ isRead: true }).where(id = id)
\* (mutant: the where clause is dropped)
MutMarkAllRead(id) == {[c EXCEPT !.isRead = TRUE] : c \in contactSubmissions}
\* (mutant: the flag is flipped instead of set)
MutMarkToggles(id) ==
    {IF c.id = id THEN [c EXCEPT !.isRead = ~@] ELSE c : c \in contactSubmissions}
markContactSubmissionRead(id) ==
    {IF c.id = id THEN [c EXCEPT !.isRead = TRUE] ELSE c : c \in contactSubmissions}

\* ------------------------------------------------------------------ connection pools

\* The options both pools are constructed with: max and
\* connectionTimeoutMillis.
PoolMax == 20
ConnectionTimeoutMillis == 2000

\* The two pools of the module, and the signals it listens to.
Pools == {"primary", "replica"}
Signals == {"SIGTERM", "SIGINT"}

\* An environment variable is not set, is set to the empty string, or holds a
\* connection string.
Unset == "(unset)"
Falsy(v) == v \in {Unset, ""}

Envs ==
    [DATABASE_URL_PRIMARY : {Unset, "", "postgres://primary"},
     DATABASE_URL_REPLICA : {Unset, "", "postgres://replica"},
     DATABASE_URL : {Unset, "", "postgres://single"}]

\* (mutant: a ?? b, which falls back only when a is undefined)
MutOrNullish(a, b) == IF a = Unset THEN b ELSE a

\* a || b of JavaScript: b when a is undefined or the empty string.
Or(a, b) == IF Falsy(a) THEN b ELSE a

primaryConnectionString(e) == Or(e.DATABASE_URL_PRIMARY, e.DATABASE_URL)
replicaConnectionString(e) == Or(e.DATABASE_URL_REPLICA, e.DATABASE_URL)

\* A pool that was never constructed, and a pool constructed on a connection
\* string.
NoPool == [connectionString |-> Unset, max |-> 0, connectionTimeoutMillis |-> 0,
           state |-> "none"]
Pool(connectionString) ==
    [connectionString |-> connectionString, max |-> PoolMax,
     connectionTimeoutMillis |-> ConnectionTimeoutMillis, state |-> "open"]

\* closeConnections has not been called for a signal.
NoHandler == [pc |-> "idle", failed |-> {}, logged |-> "none"]

\* The results object checkClusterHealth starts from, and a call not yet made.
NoResult == [healthy |-> FALSE, latency |-> 0, error |-> "null"]
NoCheck ==
    [pc |-> "idle", selected |-> [p \in Pools |-> "none"],
     results |-> [p \in Pools |-> NoResult]]

\* The acquisition requests that are followed one by one; the other callers of
\* a pool are only counted.
Requests == {"r1", "r2"}
NoRequestFor == [pool |-> "primary", st |-> "none"]

\* No connection is checked out and none is asked for.
NoPoolUse ==
    /\ held = [p \in Pools |-> 0]
    /\ acq = [r \in Requests |-> NoRequestFor]

ClusterUnloaded ==
    /\ env = [DATABASE_URL_PRIMARY |-> Unset, DATABASE_URL_REPLICA |-> Unset,
              DATABASE_URL |-> "postgres://single"]
    /\ proc = "starting"
    /\ listening = FALSE
    /\ pool = [p \in Pools |-> NoPool]
    /\ reachable = [p \in Pools |-> TRUE]
    /\ handler = [sig \in Signals |-> NoHandler]
    /\ health = NoCheck
    /\ NoPoolUse

\* A step of the connection-pool module leaves the tables and the request alone.
ClusterStep == UNCHANGED <<tables, now, resp, deleted, poolUse>>

\* Loading the module: the two connection strings are read, a missing primary
\* string throws before any pool is constructed, otherwise both pools exist and
\* the signal handlers are registered.
LoadModule ==
    /\ proc = "starting"
    /\ IF Falsy(primaryConnectionString(env))
       THEN /\ proc' = "crashed"
            /\ pool' = pool
       ELSE /\ proc' = "running"
            /\ pool' = [primary |-> Pool(primaryConnectionString(env)),
                        replica |-> Pool(replicaConnectionString(env))]
    /\ UNCHANGED <<env, listening, reachable, handler, health>>
    /\ ClusterStep

\* A database goes down or comes back.
Outage ==
    /\ proc = "running"
    /\ \E p \in Pools : reachable' = [reachable EXCEPT ![p] = ~reachable[p]]
    /\ UNCHANGED <<env, proc, listening, pool, handler, health>>
    /\ ClusterStep

\* A query on pool p is answered when the pool is open and its database is up.
QueryOk(p) == pool[p].state = "open" /\ reachable[p]

\* (mutant: one try/catch around both liveness queries, so that a failed query
\* ends the call without the other pool being asked)
MutProbedAborts(h, p, ok, latency, thrown, next) ==
    [h EXCEPT !.pc = IF ok THEN next ELSE "returned",
              !.selected[p] = IF ok THEN "succeeded" ELSE "failed",
              !.results[p] =
                  IF ok
                  THEN [@ EXCEPT !.healthy = TRUE, !.latency = latency]
                  ELSE [@ EXCEPT !.error = "error.message"]]

\* One try/catch of checkClusterHealth on pool p, in the call h: SELECT 1
\* succeeded (ok) after latency, or threw an Error or another value (thrown).
\* Either way control goes on to the statement after the try/catch.
Probed(h, p, ok, latency, thrown, next) ==
    [h EXCEPT !.pc = next,
              !.selected[p] = IF ok THEN "succeeded" ELSE "failed",
              !.results[p] =
                  IF ok
                  THEN [@ EXCEPT !.healthy = TRUE, !.latency = latency]
                  ELSE [@ EXCEPT !.error = IF thrown = "Error" THEN "error.message"
                                           ELSE "Unknown error"]]

\* checkClusterHealth is called: results starts with both pools unhealthy.
CheckStart ==
    /\ proc = "running"
    /\ health.pc \in {"idle", "returned"}
    /\ health' = [NoCheck EXCEPT !.pc = "primary"]
    /\ UNCHANGED <<env, proc, listening, pool, reachable, handler>>
    /\ ClusterStep

ProbePrimary ==
    /\ health.pc = "primary"
    /\ \E latency \in 0..MaxLatency, thrown \in {"Error", "other"} :
           health' = Probed(health, "primary", QueryOk("primary"), latency, thrown, "replica")
    /\ UNCHANGED <<env, proc, listening, pool, reachable, handler>>
    /\ ClusterStep

ProbeReplica ==
    /\ health.pc = "replica"
    /\ \E latency \in 0..MaxLatency, thrown \in {"Error", "other"} :
           health' = Probed(health, "replica", QueryOk("replica"), latency, thrown, "returned")
    /\ UNCHANGED <<env, proc, listening, pool, reachable, handler>>
    /\ ClusterStep

\* A signal arrives and its listener closeConnections starts: it awaits
\* primaryPool.end().
Signal ==
    /\ proc = "running"
    /\ \E sig \in Signals :
        /\ handler[sig].pc = "idle"
        /\ handler' = [handler EXCEPT ![sig] = [NoHandler EXCEPT !.pc = "primaryPool.end"]]
    /\ UNCHANGED <<env, proc, listening, pool, reachable, health>>
    /\ ClusterStep

\* The call c of closeConnections after the awaited end() of pool p settled:
\* fulfilled (ok) it goes on to next, rejected it lands in the catch, which logs
\* the error and returns.
Ended(c, p, ok, next) ==
    IF ok
    THEN [c EXCEPT !.pc = next, !.logged = IF next = "returned" THEN "closed" ELSE @]
    ELSE [c EXCEPT !.pc = "returned", !.failed = @ \cup {p}, !.logged = "error"]

\* The state of pool p after end() settled: ended when it was fulfilled.
EndedPool(p, ok) == IF ok THEN [pool[p] EXCEPT !.state = "ended"] ELSE pool[p]

EndPrimary ==
    /\ \E sig \in Signals, ok \in BOOLEAN :
        /\ handler[sig].pc = "primaryPool.end"
        /\ handler' = [handler EXCEPT ![sig] = Ended(@, "primary", ok, "replicaPool.end")]
        /\ pool' = [pool EXCEPT !["primary"] = EndedPool("primary", ok)]
    /\ UNCHANGED <<env, proc, listening, reachable, health>>
    /\ ClusterStep

EndReplica ==
    /\ \E sig \in Signals, ok \in BOOLEAN :
        /\ handler[sig].pc = "replicaPool.end"
        /\ handler' = [handler EXCEPT ![sig] = Ended(@, "replica", ok, "returned")]
        /\ pool' = [pool EXCEPT !["replica"] = EndedPool("replica", ok)]
    /\ UNCHANGED <<env, proc, listening, reachable, health>>
    /\ ClusterStep

\* No call is pending in the module.
Quiet ==
    /\ \A sig \in Signals : handler[sig].pc \in {"idle", "returned"}
    /\ health.pc \in {"idle", "returned"}
    /\ Idle

\* The process ends on its own once nothing keeps its event loop alive: the
\* listeners registered for SIGTERM and SIGINT replace the default termination,
\* and closeConnections does not end the process itself.
Exit ==
    /\ proc = "running"
    /\ ~listening
    /\ Quiet
    /\ proc' = "exited"
    /\ UNCHANGED <<env, listening, pool, reachable, handler, health>>
    /\ ClusterStep

\* ------------------------------------------------------------------ pool usage

\* The connections of pool p that are checked out, under the tracked requests
\* a and the count h of the others.
CheckedOut(h, a, p) ==
    h[p] + Cardinality({r \in Requests : a[r].pool = p /\ a[r].st = "acquired"})

\* Pool p can hand out one more connection: fewer than max are checked out.
HasRoom(h, a, p) == CheckedOut(h, a, p) < pool[p].max

\* (mutant: no acquisition timeout, the timer of a waiting caller never fires)
MutTimerNever(p) == FALSE

\* The timer of a waiting caller is armed when connectionTimeoutMillis is not 0.
TimerArmed(p) == pool[p].connectionTimeoutMillis > 0

\* A step on the pools' connections leaves everything else alone.
PoolStep == UNCHANGED <<tables, now, resp, deleted, cluster>>

\* An untracked caller checks out a connection of a pool that has room, or
\* gives one back.
OtherConnect ==
    /\ \E p \in Pools :
        /\ pool[p].state = "open"
        /\ HasRoom(held, acq, p)
        /\ held' = [held EXCEPT ![p] = @ + 1]
    /\ acq' = acq
    /\ PoolStep

OtherRelease ==
    /\ \E p \in Pools :
        /\ held[p] > 0
        /\ held' = [held EXCEPT ![p] = @ - 1]
    /\ acq' = acq
    /\ PoolStep

\* A tracked caller asks pool p for a connection: it gets one when the pool has
\* room and waits otherwise.
Acquire ==
    /\ \E r \in Requests, p \in Pools :
        /\ pool[p].state = "open"
        /\ acq[r].st = "none"
        /\ acq' = [acq EXCEPT ![r] = [pool |-> p,
                                      st |-> IF HasRoom(held, acq, p) THEN "acquired"
                                             ELSE "waiting"]]
    /\ held' = held
    /\ PoolStep

\* The waiting caller r is handed a connection that became free.
GrantTo(r) ==
    /\ acq[r].st = "waiting"
    /\ HasRoom(held, acq, acq[r].pool)
    /\ acq' = [acq EXCEPT ![r].st = "acquired"]
    /\ held' = held
    /\ PoolStep

Grant == \E r \in Requests : GrantTo(r)

\* The timer of the waiting caller r fires: its operation fails.
TimeoutOf(r) ==
    /\ acq[r].st = "waiting"
    /\ TimerArmed(acq[r].pool)
    /\ acq' = [acq EXCEPT ![r].st = "failed"]
    /\ held' = held
    /\ PoolStep

Timeout == \E r \in Requests : TimeoutOf(r)

\* A tracked caller gives its connection back, or is done with its failure.
Release ==
    /\ \E r \in Requests :
        /\ acq[r].st \in {"acquired", "failed"}
        /\ acq' = [acq EXCEPT ![r] = NoRequestFor]
    /\ held' = held
    /\ PoolStep

\* ------------------------------------------------------------------ initial state

\* An empty database into which the operator has seeded one admin account.
ApiInit ==
    /\ users = {[id |-> "alice", firstName |-> "A", role |-> "admin",
                 isActive |-> TRUE, createdAt |-> 1, updatedAt |-> 1]}
    /\ appointments = {}
    /\ serviceRequests = {}
    /\ invoices = {}
    /\ contactSubmissions = {}
    /\ serial = [appointments |-> 1, serviceRequests |-> 1, invoices |-> 1,
                 contactSubmissions |-> 1]
    /\ now = 1
    /\ steps = 0
    /\ resp = NoRequest
    /\ deleted = {}

\* The API server does not import the connection-pool module: it is never
\* loaded, no pool exists and no signal handler is registered.
Init ==
    /\ ApiInit
    /\ ClusterUnloaded

\* The database after the seeded admin has booked one appointment.
BookedInit ==
    /\ users = {[id |-> "alice", firstName |-> "A", role |-> "admin",
                 isActive |-> TRUE, createdAt |-> 1, updatedAt |-> 1]}
    /\ appointments = {[id |-> 1, userId |-> "alice", status |-> "pending",
                        scheduledAt |-> 1, createdAt |-> 1, updatedAt |-> 1]}
    /\ serviceRequests = {}
    /\ invoices = {}
    /\ contactSubmissions = {}
    /\ serial = [appointments |-> 2, serviceRequests |-> 1, invoices |-> 1,
                 contactSubmissions |-> 1]
    /\ now = 1
    /\ steps = 0
    /\ resp = NoRequest
    /\ deleted = {}
    /\ ClusterUnloaded

\* The process that loads the module: any environment, any databases.
ClusterInit ==
    /\ ApiInit
    /\ env \in Envs
    /\ proc = "starting"
    /\ listening \in BOOLEAN
    /\ pool = [p \in Pools |-> NoPool]
    /\ reachable \in [Pools -> BOOLEAN]
    /\ handler = [sig \in Signals |-> NoHandler]
    /\ health = NoCheck
    /\ NoPoolUse

\* ------------------------------------------------------------------ environment

\* Time passes.
Tick ==
    /\ ApiStep
    /\ now < MaxTime
    /\ now' = now + 1
    /\ Step
    /\ UNCHANGED <<users, appointments, serviceRequests, invoices, contactSubmissions,
                   serial, resp>>

\* The first names a profile carries.
FirstNames == {"A", "B"}

\* The login callback of the identity layer: upsertUser with the profile claims.
Login ==
    ApiStep /\ \E id \in UserIds, firstName \in FirstNames :
        /\ users' = upsertUser(id, firstName)
        /\ Step
        /\ UNCHANGED <<appointments, serviceRequests, invoices, contactSubmissions,
                       serial, now, resp>>

\* The client has read the response.
Deliver ==
    /\ ~Idle
    /\ resp' = NoRequest
    /\ UNCHANGED <<tables, now, deleted, cluster, poolUse>>


\* ------------------------------------------------------------------ middleware

\* The requests that arrive at a route: one for each session, and for each
\* outcome of the token refresh where isAuthenticated attempts one.
Arrivals(ep, id, uid, req) ==
    {Reply(ep, s, RefreshOutcome(s, refreshOk), id, uid, req) :
        s \in Sessions, refreshOk \in BOOLEAN}

\* isAuthenticated, first in a route's chain, answers 401 instead of calling next().
Rejected(r) == isAuthenticated(r.sess, r.refresh # "failed") = "401"
\* (it reads neither the route's parameters nor the body: the rejected request
\* is recorded without them)
Reject(r) ==
    /\ resp' = Send([r EXCEPT !.id = 0, !.uid = NoSub, !.req = NoBody], 401, "message")
    /\ UNCHANGED <<tables, now>>

\* isAdmin: "401", "403", "500", or "next".  dbOk: whether its getUser resolves.
\* (mutant: any stored user passes)
MutAdminAnyRole(sub, dbOk) ==
    IF sub = NoSub THEN "401"
    ELSE IF ~dbOk THEN "500"
    ELSE IF getUser(sub) = {} THEN "403"
    ELSE "next"
\* (mutant: the role as it was when the session was created, so that the seeded
\* admin stays admin and nobody else becomes one)
MutAdminFromSession(sub, dbOk) ==
    IF sub = NoSub THEN "401"
    ELSE IF ~dbOk THEN "500"
    ELSE IF sub # "alice" THEN "403"
    ELSE "next"
isAdmin(sub, dbOk) ==
    IF sub = NoSub THEN "401"
    ELSE IF ~dbOk THEN "500"
    ELSE IF getUser(sub) = {} \/ \E u \in getUser(sub) : u.role # "admin" THEN "403"
    ELSE "next"

\* isAdmin, second in a route's chain, answers instead of calling next().
Refused(r, dbOk) == isAdmin(r.sess.sub, dbOk) # "next"
Refuse(r, dbOk) ==
    LET verdict == isAdmin(r.sess.sub, dbOk)
        r1 == IF r.sess.sub = NoSub THEN r ELSE Called(r, "getUser")
    IN
    /\ UNCHANGED <<tables, now>>
    /\ CASE verdict = "401" -> resp' = Send(r1, 401, "message")
         [] verdict = "403" -> resp' = Send(r1, 403, "message")
         [] verdict = "500" -> resp' = Send(Threw(r1), 500, "generic")
\* The request as isAdmin hands it on.
PassedAdmin(r) == Called(r, "getUser")

\* ------------------------------------------------------------------ account and health routes

\* GET /api/auth/user
HandleAuthUser(r) ==
    \E dbOk \in BOOLEAN :
        /\ UNCHANGED tables
        /\ IF ~dbOk
           THEN resp' = Send(Threw(Called(r, "getUser")), 500, "generic")
           ELSE IF getUser(r.sess.sub) = {}
           THEN resp' = Send(Called(r, "getUser"), 200, "undefined")
           ELSE \E u \in getUser(r.sess.sub) :
                    resp' = SendRows(Called(r, "getUser"), 200, "row", <<u>>)

AuthUser ==
    ApiStep /\ \E r \in Arrivals("GET /api/auth/user", 0, NoSub, NoBody) :
                IF Rejected(r) THEN Reject(r)
                ELSE UNCHANGED now /\ HandleAuthUser(r)

\* GET /api/health/database (no middleware)
HandleHealthDatabase(dbOk) ==
    LET r == Called(Reply("GET /api/health/database", NoSession, "none", 0, NoSub, NoBody),
                    "getUser") IN
    /\ UNCHANGED <<tables, now>>
    /\ IF ~dbOk
       THEN resp' = Send(Threw(r), 500, "detail")
       ELSE resp' = Send(r, 200, "message")

HealthDatabase ==
    ApiStep /\ \E dbOk \in BOOLEAN : HandleHealthDatabase(dbOk)

\* GET /api/health/database on a listening server while the module is loaded:
\* storage queries db, the primary pool.
ClusterHealthDatabase ==
    /\ proc = "running"
    /\ listening
    /\ Idle
    /\ HandleHealthDatabase(QueryOk("primary"))
    /\ UNCHANGED <<cluster, poolUse, deleted>>

\* GET /api/health/connections
HandleHealthConnections(r) ==
    /\ UNCHANGED tables
    /\ resp' = Send(r, 200, "message")

HealthConnections ==
    ApiStep /\ \E r \in Arrivals("GET /api/health/connections", 0, NoSub, NoBody), dbOk \in BOOLEAN :
                IF Rejected(r) THEN Reject(r)
                ELSE IF Refused(r, dbOk) THEN Refuse(r, dbOk)
                ELSE UNCHANGED now /\ HandleHealthConnections(PassedAdmin(r))

\* ------------------------------------------------------------------ appointment routes

\* GET /api/appointments
HandleGetAppointments(r) ==
    \E dbOk \in BOOLEAN :
        /\ UNCHANGED tables
        /\ IF ~dbOk
           THEN resp' = Send(Threw(Called(r, "getAppointments")), 500, "generic")
           ELSE \E rows \in Listings(getAppointmentsRows(r.sess.sub), ByScheduledAt) :
                    resp' = SendRows(Called(r, "getAppointments"), 200, "rows", rows)

GetAppointments ==
    ApiStep /\ \E r \in Arrivals("GET /api/appointments", 0, NoSub, NoBody) :
                IF Rejected(r) THEN Reject(r)
                ELSE UNCHANGED now /\ HandleGetAppointments(r)

\* insertAppointmentSchema.parse({ ...req.body, userId }): whether it throws a ZodError.
\* (mutant: { userId, ...req.body }, where a userId of the body wins)
MutBodyUserIdWins(body, userId) ==
    IF body.userId = Absent THEN [body EXCEPT !.userId = userId] ELSE body

\* { ...req.body, userId }: the body with its userId replaced by the requester's.
WithUserId(body, userId) == [body EXCEPT !.userId = userId]

AppointmentInvalid(req, userId) == ~req.wellFormed \/ userId = NoSub

\* The bodies POST /api/appointments is sent: a well-formed one for each
\* scheduled time, one that also carries a userId, and one that is not well-formed.
PostAppointmentBodies ==
    {[NoBody EXCEPT !.scheduledAt = at] : at \in Times}
    \cup {[NoBody EXCEPT !.scheduledAt = 1, !.userId = u] : u \in UserIds}
    \cup {[NoBody EXCEPT !.wellFormed = FALSE]}

\* POST /api/appointments
HandlePostAppointment(r) ==
    \E dbOk \in BOOLEAN :
        LET row == [id |-> serial.appointments, userId |-> WithUserId(r.req, r.sess.sub).userId,
                    status |-> IF r.req.status = Absent THEN "pending" ELSE r.req.status,
                    scheduledAt |-> r.req.scheduledAt, createdAt |-> now, updatedAt |-> now]
            r1 == Called(r, "createAppointment")
        IN
        /\ UNCHANGED <<users, serviceRequests, invoices, contactSubmissions>>
        /\ IF AppointmentInvalid(r.req, r.sess.sub)
           THEN resp' = Send(r, 400, "fieldErrors") /\ UNCHANGED <<appointments, serial, steps>>
           ELSE IF ~dbOk
           THEN resp' = Send(Threw(r1), 500, "generic") /\ UNCHANGED <<appointments, serial, steps>>
           ELSE IF InsertViolates(appointments, row)
           THEN /\ resp' = Send(Threw(r1), 500, "generic")
                /\ serial' = [serial EXCEPT !.appointments = @ + 1]
                /\ Step
                /\ UNCHANGED appointments
           ELSE /\ resp' = SendRows(r1, 201, "row", <<row>>)
                /\ serial' = [serial EXCEPT !.appointments = @ + 1]
                /\ Step
                /\ appointments' = appointments \cup {row}

PostAppointment ==
    /\ ApiStep
    /\ serial.appointments <= MaxRows
    /\ \E req \in PostAppointmentBodies :
         \E r \in Arrivals("POST /api/appointments", 0, NoSub, req) :
             IF Rejected(r) THEN Reject(r)
             ELSE UNCHANGED now /\ HandlePostAppointment(r)

\* The bodies PUT /api/appointments/:id is sent: one field (status, userId or
\* id), or a field of the wrong type.
PutAppointmentBodies ==
    {[NoBody EXCEPT !.status = "confirmed"]}
    \cup {[NoBody EXCEPT !.userId = u] : u \in UserIds}
    \cup {[NoBody EXCEPT !.id = i] : i \in RowIds}
    \cup {[NoBody EXCEPT !.wellFormed = FALSE]}

\* PUT /api/appointments/:id
HandlePutAppointment(r) ==
    \E dbOk \in BOOLEAN :
        LET matched == MatchAppointment(r.id, r.sess.sub)
            r1 == Called(r, "updateAppointment")
        IN
        /\ UNCHANGED <<users, serviceRequests, invoices, contactSubmissions, serial>>
        /\ IF ~dbOk \/ UpdateViolates(r.id, r.sess.sub, r.req)
           THEN resp' = Send(Threw(r1), 500, "generic") /\ UNCHANGED <<appointments, steps>>
           ELSE IF matched = {}
           THEN resp' = Send(r1, 404, "message") /\ UNCHANGED <<appointments, steps>>
           ELSE /\ \E a \in matched :
                     resp' = SendRows(r1, 200, "row", <<SetAppointment(a, r.req)>>)
                /\ appointments' = UpdatedAppointments(r.id, r.sess.sub, r.req)
                /\ Step

PutAppointment ==
    /\ ApiStep
    /\ \E id \in RowIds, req \in PutAppointmentBodies :
         \E r \in Arrivals("PUT /api/appointments/:id", id, NoSub, req) :
             IF Rejected(r) THEN Reject(r)
             ELSE UNCHANGED now /\ HandlePutAppointment(r)

\* DELETE /api/appointments/:id
HandleDeleteAppointment(r) ==
    \E dbOk \in BOOLEAN :
        LET r1 == Called(r, "deleteAppointment") IN
        /\ UNCHANGED <<users, serviceRequests, invoices, contactSubmissions, serial>>
        /\ IF ~dbOk
           THEN /\ resp' = Send(Threw(r1), 500, "generic")
                /\ UNCHANGED <<appointments, steps, deleted>>
           ELSE IF MatchAppointment(r.id, r.sess.sub) = {}
           THEN /\ resp' = Send(r1, 404, "message")
                /\ UNCHANGED <<appointments, steps, deleted>>
           ELSE /\ resp' = Send(r1, 204, "empty")
                /\ appointments' = DeletedAppointments(r.id, r.sess.sub)
                /\ deleted' = deleted \cup {r.id}
                /\ Step

DeleteAppointment ==
    /\ Idle
    /\ UNCHANGED <<cluster, poolUse>>
    /\ \E id \in RowIds :
         \E r \in Arrivals("DELETE /api/appointments/:id", id, NoSub, NoBody) :
             IF Rejected(r) THEN Reject(r) /\ UNCHANGED deleted
             ELSE UNCHANGED now /\ HandleDeleteAppointment(r)

\* ------------------------------------------------------------------ service request and invoice routes

\* GET /api/service-requests
HandleGetServiceRequests(r) ==
    \E dbOk \in BOOLEAN :
        /\ UNCHANGED tables
        /\ IF ~dbOk
           THEN resp' = Send(Threw(Called(r, "getServiceRequests")), 500, "generic")
           ELSE \E rows \in Listings(getServiceRequestsRows(r.sess.sub), ByCreatedAt) :
                    resp' = SendRows(Called(r, "getServiceRequests"), 200, "rows", rows)

GetServiceRequests ==
    ApiStep /\ \E r \in Arrivals("GET /api/service-requests", 0, NoSub, NoBody) :
                IF Rejected(r) THEN Reject(r)
                ELSE UNCHANGED now /\ HandleGetServiceRequests(r)

\* POST /api/service-requests
HandlePostServiceRequest(r) ==
    \E dbOk \in BOOLEAN :
        LET row == [id |-> serial.serviceRequests, userId |-> WithUserId(r.req, r.sess.sub).userId,
                    status |-> "open", createdAt |-> now]
            r1 == Called(r, "createServiceRequest")
        IN
        /\ UNCHANGED <<users, appointments, invoices, contactSubmissions>>
        /\ IF AppointmentInvalid(r.req, r.sess.sub)
           THEN resp' = Send(r, 400, "fieldErrors") /\ UNCHANGED <<serviceRequests, serial, steps>>
           ELSE IF ~dbOk
           THEN resp' = Send(Threw(r1), 500, "generic") /\ UNCHANGED <<serviceRequests, serial, steps>>
           ELSE IF InsertViolates(serviceRequests, row)
           THEN /\ resp' = Send(Threw(r1), 500, "generic")
                /\ serial' = [serial EXCEPT !.serviceRequests = @ + 1]
                /\ Step
                /\ UNCHANGED serviceRequests
           ELSE /\ resp' = SendRows(r1, 201, "row", <<row>>)
                /\ serial' = [serial EXCEPT !.serviceRequests = @ + 1]
                /\ Step
                /\ serviceRequests' = serviceRequests \cup {row}

PostServiceRequest ==
    /\ ApiStep
    /\ serial.serviceRequests <= MaxRows
    /\ \E bu \in UserIds \cup {Absent}, wf \in BOOLEAN :
         \E r \in Arrivals("POST /api/service-requests", 0, NoSub, [NoBody EXCEPT !.userId = bu, !.wellFormed = wf]) :
             IF Rejected(r) THEN Reject(r)
             ELSE UNCHANGED now /\ HandlePostServiceRequest(r)

\* GET /api/invoices
HandleGetInvoices(r) ==
    \E dbOk \in BOOLEAN :
        /\ UNCHANGED tables
        /\ IF ~dbOk
           THEN resp' = Send(Threw(Called(r, "getInvoices")), 500, "generic")
           ELSE \E rows \in Listings(getInvoicesRows(r.sess.sub), ByCreatedAt) :
                    resp' = SendRows(Called(r, "getInvoices"), 200, "rows", rows)

GetInvoices ==
    ApiStep /\ \E r \in Arrivals("GET /api/invoices", 0, NoSub, NoBody) :
                IF Rejected(r) THEN Reject(r)
                ELSE UNCHANGED now /\ HandleGetInvoices(r)

\* DatabaseStorage.createInvoice: no route calls it; invoices are issued by the
\* operator through the storage layer.
CreateInvoice ==
    /\ ApiStep
    /\ serial.invoices <= MaxRows
    /\ \E userId \in UserIds :
         LET row == [id |-> serial.invoices, userId |-> userId, status |-> "pending",
                     createdAt |-> now] IN
         /\ ~InsertViolates(invoices, row)
         /\ invoices' = invoices \cup {row}
         /\ serial' = [serial EXCEPT !.invoices = @ + 1]
         /\ Step
         /\ UNCHANGED <<users, appointments, serviceRequests, contactSubmissions, now, resp>>

\* ------------------------------------------------------------------ contact route

\* POST /api/contact (no middleware)
PostContact ==
    /\ ApiStep
    /\ serial.contactSubmissions <= MaxRows
    /\ \E wf, dbOk \in BOOLEAN :
         LET r == Reply("POST /api/contact", NoSession, "none", 0, NoSub,
                        [NoBody EXCEPT !.wellFormed = wf])
             r1 == Called(r, "createContactSubmission")
             row == [id |-> serial.contactSubmissions, isRead |-> FALSE, createdAt |-> now]
         IN
         /\ UNCHANGED <<users, appointments, serviceRequests, invoices, now>>
         /\ IF ~wf
            THEN resp' = Send(r, 400, "fieldErrors") /\ UNCHANGED <<contactSubmissions, serial, steps>>
            ELSE IF ~dbOk
            THEN resp' = Send(Threw(r1), 500, "generic") /\ UNCHANGED <<contactSubmissions, serial, steps>>
            ELSE /\ resp' = Send(r1, 201, "message")
                 /\ Step
                 /\ serial' = [serial EXCEPT !.contactSubmissions = @ + 1]
                 /\ contactSubmissions' = contactSubmissions \cup {row}

\* ------------------------------------------------------------------ admin routes

\* GET /api/admin/users
HandleAdminUsers(r) ==
    \E dbOk \in BOOLEAN :
        /\ UNCHANGED tables
        /\ IF ~dbOk
           THEN resp' = Send(Threw(Called(r, "getAllUsers")), 500, "generic")
           ELSE \E rows \in Listings(users, ByCreatedAt) :
                    resp' = SendRows(Called(r, "getAllUsers"), 200, "rows", rows)

AdminUsers ==
    ApiStep /\ \E r \in Arrivals("GET /api/admin/users", 0, NoSub, NoBody), dbOk \in BOOLEAN :
                IF Rejected(r) THEN Reject(r)
                ELSE IF Refused(r, dbOk) THEN Refuse(r, dbOk)
                ELSE UNCHANGED now /\ HandleAdminUsers(PassedAdmin(r))

\* PUT /api/admin/users/:id/role
\* (mutants: any role is accepted; a role need only be present)
MutRoleAcceptsAny(role) == TRUE
MutRoleOnlyRequired(role) == role # Absent
\* ["client", "admin"].includes(role)
RoleAccepted(role) == role \in {"client", "admin"}

HandleAdminUserRole(r) ==
    \E dbOk \in BOOLEAN :
        LET r1 == Called(r, "updateUserRole") IN
        /\ UNCHANGED <<appointments, serviceRequests, invoices, contactSubmissions, serial>>
        /\ IF ~RoleAccepted(r.req.role)
           THEN resp' = Send(r, 400, "message") /\ UNCHANGED <<users, steps>>
           ELSE IF ~dbOk
           THEN resp' = Send(Threw(r1), 500, "generic") /\ UNCHANGED <<users, steps>>
           ELSE IF getUser(r.uid) = {}
           THEN resp' = Send(r1, 404, "message") /\ UNCHANGED <<users, steps>>
           ELSE /\ users' = updateUserRole(r.uid, r.req.role)
                /\ Step
                /\ \E u \in getUser(r.uid) :
                     resp' = SendRows(r1, 200, "row",
                                      <<[u EXCEPT !.role = r.req.role, !.updatedAt = now]>>)

AdminUserRole ==
    ApiStep /\ \E uid \in UserIds, role \in Roles \cup {"superuser", Absent} :
        \E r \in Arrivals("PUT /api/admin/users/:id/role", 0, uid, [NoBody EXCEPT !.role = role]), dbOk \in BOOLEAN :
            IF Rejected(r) THEN Reject(r)
            ELSE IF Refused(r, dbOk) THEN Refuse(r, dbOk)
            ELSE UNCHANGED now /\ HandleAdminUserRole(PassedAdmin(r))

\* PUT /api/admin/users/:id/status
HandleAdminUserStatus(r) ==
    \E dbOk \in BOOLEAN :
        LET r1 == Called(r, "updateUserStatus") IN
        /\ UNCHANGED <<appointments, serviceRequests, invoices, contactSubmissions, serial>>
        /\ IF ~dbOk
           THEN resp' = Send(Threw(r1), 500, "generic") /\ UNCHANGED <<users, steps>>
           ELSE IF getUser(r.uid) = {}
           THEN resp' = Send(r1, 404, "message") /\ UNCHANGED <<users, steps>>
           ELSE /\ users' = updateUserStatus(r.uid, r.req.isActive)
                /\ Step
                /\ \E u \in updateUserStatus(r.uid, r.req.isActive) :
                     u.id = r.uid /\ resp' = SendRows(r1, 200, "row", <<u>>)

AdminUserStatus ==
    ApiStep /\ \E uid \in UserIds, isActive \in {"true", "false", Absent} :
        \E r \in Arrivals("PUT /api/admin/users/:id/status", 0, uid, [NoBody EXCEPT !.isActive = isActive]), dbOk \in BOOLEAN :
            IF Rejected(r) THEN Reject(r)
            ELSE IF Refused(r, dbOk) THEN Refuse(r, dbOk)
            ELSE UNCHANGED now /\ HandleAdminUserStatus(PassedAdmin(r))

\* GET /api/admin/appointments
HandleAdminAppointments(r) ==
    \E dbOk \in BOOLEAN :
        /\ UNCHANGED tables
        /\ IF ~dbOk
           THEN resp' = Send(Threw(Called(r, "getAllAppointments")), 500, "generic")
           ELSE \E rows \in Listings(appointments, ByScheduledAt) :
                    resp' = SendRows(Called(r, "getAllAppointments"), 200, "rows", rows)

AdminAppointments ==
    ApiStep /\ \E r \in Arrivals("GET /api/admin/appointments", 0, NoSub, NoBody), dbOk \in BOOLEAN :
                IF Rejected(r) THEN Reject(r)
                ELSE IF Refused(r, dbOk) THEN Refuse(r, dbOk)
                ELSE UNCHANGED now /\ HandleAdminAppointments(PassedAdmin(r))

\* GET /api/admin/service-requests
HandleAdminServiceRequests(r) ==
    \E dbOk \in BOOLEAN :
        /\ UNCHANGED tables
        /\ IF ~dbOk
           THEN resp' = Send(Threw(Called(r, "getAllServiceRequests")), 500, "generic")
           ELSE \E rows \in Listings(serviceRequests, ByCreatedAt) :
                    resp' = SendRows(Called(r, "getAllServiceRequests"), 200, "rows", rows)

AdminServiceRequests ==
    ApiStep /\ \E r \in Arrivals("GET /api/admin/service-requests", 0, NoSub, NoBody), dbOk \in BOOLEAN :
                IF Rejected(r) THEN Reject(r)
                ELSE IF Refused(r, dbOk) THEN Refuse(r, dbOk)
                ELSE UNCHANGED now /\ HandleAdminServiceRequests(PassedAdmin(r))

\* GET /api/admin/contact-submissions
HandleAdminContactSubmissions(r) ==
    \E dbOk \in BOOLEAN :
        /\ UNCHANGED tables
        /\ IF ~dbOk
           THEN resp' = Send(Threw(Called(r, "getContactSubmissions")), 500, "generic")
           ELSE \E rows \in Listings(contactSubmissions, ByCreatedAt) :
                    resp' = SendRows(Called(r, "getContactSubmissions"), 200, "rows", rows)

AdminContactSubmissions ==
    ApiStep /\ \E r \in Arrivals("GET /api/admin/contact-submissions", 0, NoSub, NoBody), dbOk \in BOOLEAN :
                IF Rejected(r) THEN Reject(r)
                ELSE IF Refused(r, dbOk) THEN Refuse(r, dbOk)
                ELSE UNCHANGED now /\ HandleAdminContactSubmissions(PassedAdmin(r))

\* PUT /api/admin/contact-submissions/:id/read
HandleAdminContactRead(r) ==
    \E dbOk \in BOOLEAN :
        LET r1 == Called(r, "markContactSubmissionRead") IN
        /\ UNCHANGED <<users, appointments, serviceRequests, invoices, serial>>
        /\ IF ~dbOk
           THEN resp' = Send(Threw(r1), 500, "generic") /\ UNCHANGED <<contactSubmissions, steps>>
           ELSE IF {c \in contactSubmissions : c.id = r.id} = {}
           THEN resp' = Send(r1, 404, "message") /\ UNCHANGED <<contactSubmissions, steps>>
           ELSE /\ resp' = Send(r1, 200, "message")
                /\ Step
                /\ contactSubmissions' = markContactSubmissionRead(r.id)

AdminContactRead ==
    ApiStep /\ \E id \in RowIds :
        \E r \in Arrivals("PUT /api/admin/contact-submissions/:id/read", id, NoSub, NoBody), dbOk \in BOOLEAN :
            IF Rejected(r) THEN Reject(r)
            ELSE IF Refused(r, dbOk) THEN Refuse(r, dbOk)
            ELSE UNCHANGED now /\ HandleAdminContactRead(PassedAdmin(r))

\* ------------------------------------------------------------------ route table

\* The routes registered behind isAuthenticated, and those also behind isAdmin.
AdminEndpoints ==
    {"GET /api/health/connections", "GET /api/admin/users",
     "PUT /api/admin/users/:id/role", "PUT /api/admin/users/:id/status",
     "GET /api/admin/appointments", "GET /api/admin/service-requests",
     "GET /api/admin/contact-submissions", "PUT /api/admin/contact-submissions/:id/read"}
ProtectedEndpoints ==
    AdminEndpoints \cup
    {"GET /api/auth/user", "GET /api/appointments", "POST /api/appointments",
     "PUT /api/appointments/:id", "DELETE /api/appointments/:id",
     "GET /api/service-requests", "POST /api/service-requests", "GET /api/invoices"}

\* ------------------------------------------------------------------ specification

Next ==
    \/ Tick
    \/ Login
    \/ Deliver
    \/ CreateInvoice
    \/ AuthUser
    \/ HealthDatabase
    \/ HealthConnections
    \/ GetAppointments
    \/ PostAppointment
    \/ PutAppointment
    \/ DeleteAppointment
    \/ GetServiceRequests
    \/ PostServiceRequest
    \/ GetInvoices
    \/ PostContact
    \/ AdminUsers
    \/ AdminUserRole
    \/ AdminUserStatus
    \/ AdminAppointments
    \/ AdminServiceRequests
    \/ AdminContactSubmissions
    \/ AdminContactRead

Spec == Init /\ [][Next]_vars

\* The API from the state in which one appointment is already booked.
BookedSpec == BookedInit /\ [][Next]_vars

\* The process that loads the connection-pool module.
ClusterNext ==
    \/ LoadModule
    \/ Outage
    \/ CheckStart
    \/ ProbePrimary
    \/ ProbeReplica
    \/ Signal
    \/ EndPrimary
    \/ EndReplica
    \/ Exit
    \/ ClusterHealthDatabase
    \/ Deliver

ClusterSpec == ClusterInit /\ [][ClusterNext]_vars

\* The pools in use: the module is loaded, and callers check connections out
\* and give them back.
PoolNext ==
    \/ LoadModule
    \/ OtherConnect
    \/ OtherRelease
    \/ Acquire
    \/ Grant
    \/ Timeout
    \/ Release

\* Each waiting caller is handed a connection or its own timer fires.
PoolSpec ==
    /\ Init
    /\ [][PoolNext]_vars
    /\ \A r \in Requests : WF_vars(GrantTo(r) \/ TimeoutOf(r))

\* Every awaited promise settles (an end(), a liveness query), a response is
\* delivered, and a process that keeps finding its event loop empty ends.
ClusterLive ==
    /\ ClusterSpec
    /\ WF_vars(EndPrimary) /\ WF_vars(EndReplica)
    /\ WF_vars(ProbePrimary) /\ WF_vars(ProbeReplica)
    /\ WF_vars(Deliver)
    /\ SF_vars(Exit)

\* ------------------------------------------------------------------ properties

\* The request now being answered was made to endpoint ep.
\* A step that answers a request.
Answers == Idle /\ resp' # NoRequest

\* The session of request r satisfies what isAuthenticated asks for at the time
\* of the request.
SessionAdmits(r) ==
    /\ r.sess.authed
    /\ r.sess.expires_at # 0
    /\ \/ now <= r.sess.expires_at
       \/ r.sess.refresh_token /\ r.refresh = "ok"

\* C1: PUT and DELETE /api/appointments/:id, when a row with that id exists and
\* every such row belongs to another user than the requester: the answer is
\* never 200 or 204, it is 404 unless the storage call itself threw, and table
\* appointments is left as it was.
C1_NotOwnedIs404 ==
    [][(/\ Answers
        /\ resp'.ep \in {"PUT /api/appointments/:id", "DELETE /api/appointments/:id"}
        /\ SessionAdmits(resp')
        /\ \E a \in appointments : a.id = resp'.id
        /\ \A a \in appointments : a.id = resp'.id => a.userId # resp'.sess.sub)
       => /\ resp'.status \in {404, 500}
          /\ ~resp'.threw => resp'.status = 404 /\ resp'.body = "message"
          /\ appointments' = appointments]_vars

\* A user was answered 404 for an appointment that exists and belongs to someone else.
C1_Witness ==
    /\ resp.ep \in {"PUT /api/appointments/:id", "DELETE /api/appointments/:id"}
    /\ resp.status = 404
    /\ resp.sess.sub \in UserIds
    /\ \E a \in appointments : a.id = resp.id /\ a.userId # resp.sess.sub

\* C2: PUT /api/appointments/:id never changes the userId or the id of a row:
\* every row is still there afterwards under the same id and the same owner.
C2_PutKeepsOwnerAndId ==
    [][(Answers /\ resp'.ep = "PUT /api/appointments/:id")
       => \A a \in appointments :
            \E b \in appointments' : b.id = a.id /\ b.userId = a.userId]_vars

\* C3: a request to a session-protected endpoint whose session does not satisfy
\* isAuthenticated (no session, no expires_at, expired without refresh token,
\* refresh failed) is answered 401 and executes no storage operation; a request
\* that executed a storage operation or got another answer had a session that
\* is authenticated and either unexpired or refreshed.
C3_OnlyAuthenticatedReachHandler ==
    resp.ep \in ProtectedEndpoints =>
        /\ ~SessionAdmits(resp) => resp.status = 401 /\ resp.calls = {} /\ ~resp.threw
        /\ (resp.status # 401 \/ resp.calls # {}) => SessionAdmits(resp)

\* An expired session whose token refresh failed was answered 401.
C3_Witness ==
    /\ resp.ep = "GET /api/appointments"
    /\ resp.sess.authed /\ resp.sess.expires_at # 0 /\ now > resp.sess.expires_at
    /\ resp.refresh = "failed"
    /\ resp.status = 401

\* The stored role of the user with id sub is "admin" (in the state before the step).
StoredAdmin(sub) == \E u \in users : u.id = sub /\ u.role = "admin"
\* The database tables.
db == <<users, appointments, serviceRequests, invoices, contactSubmissions>>

\* C4: a request to an admin endpoint that passed isAuthenticated: without a
\* user id in its claims it is answered 401 and executes no storage operation;
\* with a user id whose stored role is not "admin" (or that has no user row) it
\* executes no storage operation but isAdmin's getUser, changes nothing, and is
\* answered 403 (500 only when that getUser threw).
C4_NonAdminIs403 ==
    [][(Answers /\ resp'.ep \in AdminEndpoints /\ SessionAdmits(resp'))
       => /\ resp'.sess.sub = NoSub => resp'.status = 401 /\ resp'.calls = {}
          /\ (resp'.sess.sub # NoSub /\ ~StoredAdmin(resp'.sess.sub))
                => /\ resp'.calls = {"getUser"}
                   /\ db' = db
                   /\ resp'.status \in {403, 500}
                   /\ ~resp'.threw => resp'.status = 403 /\ resp'.body = "message"]_vars

\* A stored client asked for a role update and was answered 403.
C4_Witness ==
    /\ resp.ep = "PUT /api/admin/users/:id/role"
    /\ resp.status = 403
    /\ \E u \in users : u.id = resp.sess.sub /\ u.role = "client"

\* C5: PUT /api/admin/users/:id/role with a role outside {client, admin} (or
\* none) never calls updateUserRole and leaves table users as it was; when the
\* request reaches the handler (an admin's request) the answer is 400.
C5_InvalidRoleIs400 ==
    [][(/\ Answers
        /\ resp'.ep = "PUT /api/admin/users/:id/role"
        /\ resp'.req.role \notin {"client", "admin"})
       => /\ "updateUserRole" \notin resp'.calls
          /\ users' = users
          /\ (SessionAdmits(resp') /\ StoredAdmin(resp'.sess.sub) /\ ~resp'.threw)
                => resp'.status = 400 /\ resp'.body = "message"]_vars

\* An admin sent a role outside the enum, for a stored user, and was answered 400.
C5_Witness ==
    /\ resp.ep = "PUT /api/admin/users/:id/role"
    /\ resp.req.role = "superuser"
    /\ resp.status = 400
    /\ \E u \in users : u.id = resp.uid

\* C6: in every reachable state every stored user's role is "client" or "admin".
C6_RolesInEnum == \A u \in users : u.role \in {"client", "admin"}

\* A role update was accepted and stored: bob, created as a client, is an admin.
C6_Witness ==
    /\ resp.ep = "PUT /api/admin/users/:id/role"
    /\ resp.status = 200
    /\ \E u \in users : u.id = "bob" /\ u.role = "admin"

\* The endpoints that take a body for an owned entity or a contact submission.
BodyEndpoints ==
    {"POST /api/appointments", "POST /api/service-requests", "POST /api/contact",
     "PUT /api/appointments/:id"}

\* C7: on each of these endpoints a body that fails schema validation is
\* answered 400 with a message and the list of field errors, and no row is
\* created or changed (requests whose storage operation threw aside).
C7_InvalidBodyIs400 ==
    [][(/\ Answers
        /\ resp'.ep \in BodyEndpoints
        /\ ~resp'.req.wellFormed
        /\ ~resp'.threw
        /\ resp'.ep \in ProtectedEndpoints => SessionAdmits(resp'))
       => /\ resp'.status = 400
          /\ resp'.body = "fieldErrors"
          /\ db' = db]_vars

\* C8: on every endpoint a request whose storage operation threw is answered
\* 500 with a fixed generic message, without the exception's own message.
C8_FailureIsGeneric500 ==
    resp.threw => resp.status = 500 /\ resp.body = "generic"

\* The routes that address one row by id to update or delete it.
ByIdEndpoints ==
    {"PUT /api/appointments/:id", "DELETE /api/appointments/:id",
     "PUT /api/admin/users/:id/role", "PUT /api/admin/users/:id/status",
     "PUT /api/admin/contact-submissions/:id/read"}

\* The storage operation request r reaches finds no row (in the state before
\* the step): the requester's own row, or the row the route addresses by id.
LookupAbsent(r) ==
    \/ /\ r.ep \in {"GET /api/auth/user"} \cup AdminEndpoints
       /\ r.sess.sub # NoSub
       /\ \A u \in users : u.id # r.sess.sub
    \/ r.ep = "GET /api/health/database"
    \/ /\ r.ep \in {"PUT /api/appointments/:id", "DELETE /api/appointments/:id"}
       /\ \A a \in appointments : ~(a.id = r.id /\ a.userId = r.sess.sub)
    \/ /\ r.ep \in {"PUT /api/admin/users/:id/role", "PUT /api/admin/users/:id/status"}
       /\ StoredAdmin(r.sess.sub)
       /\ r.ep = "PUT /api/admin/users/:id/role" => r.req.role \in {"client", "admin"}
       /\ \A u \in users : u.id # r.uid
    \/ /\ r.ep = "PUT /api/admin/contact-submissions/:id/read"
       /\ StoredAdmin(r.sess.sub)
       /\ \A c \in contactSubmissions : c.id # r.id

\* A request that reached its route and whose storage operation found no row
\* and did not throw.
AnswersAbsent ==
    /\ Answers
    /\ resp'.ep \in ProtectedEndpoints => SessionAdmits(resp')
    /\ ~resp'.threw
    /\ LookupAbsent(resp')

\* C9 (as stated): a storage operation that matches no row does not raise, and
\* every route that receives the absent result answers 404, never 200 or 500.
C9_AbsentIs404 ==
    [][AnswersAbsent => resp'.status = 404]_vars

\* C9 (amended): a storage operation that matches no row does not raise and
\* changes nothing, and no route answers 500 for it; the routes that address a
\* row by id answer 404; GET /api/auth/user answers 200 with an empty body,
\* GET /api/health/database answers 200, and isAdmin answers 403 for a
\* requester without a user row.
C9_AbsentByRoute ==
    [][AnswersAbsent
       => /\ db' = db
          /\ resp'.status # 500
          /\ resp'.ep = "GET /api/auth/user"
                => resp'.status = 200 /\ resp'.body = "undefined" /\ resp'.rows = <<>>
          /\ resp'.ep = "GET /api/health/database" => resp'.status = 200
          /\ (resp'.ep \in AdminEndpoints /\ ~StoredAdmin(resp'.sess.sub))
                => resp'.status = 403
          /\ (/\ resp'.ep \in ByIdEndpoints
              /\ resp'.ep \in AdminEndpoints => StoredAdmin(resp'.sess.sub))
                => resp'.status = 404 /\ resp'.body = "message"]_vars

\* A user without a row asked for their own record and was answered 200 with
\* nothing in the body.
C9_Witness ==
    /\ resp.ep = "GET /api/auth/user"
    /\ resp.sess.sub = "bob"
    /\ \A u \in users : u.id # "bob"
    /\ resp.status = 200
    /\ resp.body = "undefined"

\* The rows of a listing, and a listing that holds each row of S once.
RowSet(rows) == {rows[i] : i \in 1..Len(rows)}
ListsExactly(rows, S) == RowSet(rows) = S /\ Len(rows) = Cardinality(S)

\* C10: a user listing answered 200 holds exactly the rows whose userId is the
\* requester's id, an admin listing answered 200 holds every row of its table,
\* and a listing whose storage operation did not throw is answered 200.
C10_ListingsExact ==
    /\ (resp.ep = "GET /api/appointments" /\ resp.status = 200)
          => ListsExactly(resp.rows, {a \in appointments : a.userId = resp.sess.sub})
    /\ (resp.ep = "GET /api/service-requests" /\ resp.status = 200)
          => ListsExactly(resp.rows, {s \in serviceRequests : s.userId = resp.sess.sub})
    /\ (resp.ep = "GET /api/invoices" /\ resp.status = 200)
          => ListsExactly(resp.rows, {i \in invoices : i.userId = resp.sess.sub})
    /\ (resp.ep = "GET /api/admin/users" /\ resp.status = 200)
          => ListsExactly(resp.rows, users)
    /\ (resp.ep = "GET /api/admin/appointments" /\ resp.status = 200)
          => ListsExactly(resp.rows, appointments)
    /\ (resp.ep = "GET /api/admin/service-requests" /\ resp.status = 200)
          => ListsExactly(resp.rows, serviceRequests)
    /\ (resp.ep = "GET /api/admin/contact-submissions" /\ resp.status = 200)
          => ListsExactly(resp.rows, contactSubmissions)
    /\ (/\ resp.ep \in {"GET /api/appointments", "GET /api/service-requests", "GET /api/invoices"}
        /\ SessionAdmits(resp)
        /\ ~resp.threw)
          => resp.status = 200 /\ resp.body = "rows"

\* A user listed their appointments while another user's appointment is stored.
C10_Witness ==
    /\ resp.ep = "GET /api/appointments"
    /\ resp.status = 200
    /\ Len(resp.rows) = 1
    /\ \E a \in appointments : a.userId # resp.sess.sub

\* The endpoints that list appointments, and those that list the other tables.
AppointmentListings == {"GET /api/appointments", "GET /api/admin/appointments"}
OtherListings ==
    {"GET /api/service-requests", "GET /api/invoices", "GET /api/admin/users",
     "GET /api/admin/service-requests", "GET /api/admin/contact-submissions"}
\* The response in hand is a listing that was answered 200.
Listed(eps) == resp.ep \in eps /\ resp.status = 200

\* C11 (as stated): every listing comes most recently added first: no row
\* stands before a row that was added (created) later than it.
C11_ListingsByRecency ==
    Listed(AppointmentListings \cup OtherListings)
       => \A i, j \in 1..Len(resp.rows) :
             i < j => resp.rows[i].createdAt >= resp.rows[j].createdAt

\* C11 (amended): every listing comes in descending order of its sort column,
\* never unordered or ascending: scheduledAt for the appointment listings,
\* createdAt for every other listing.
C11_ListingsBySortColumn ==
    /\ Listed(AppointmentListings)
          => \A i, j \in 1..Len(resp.rows) :
                i < j => resp.rows[i].scheduledAt >= resp.rows[j].scheduledAt
    /\ Listed(OtherListings)
          => \A i, j \in 1..Len(resp.rows) :
                i < j => resp.rows[i].createdAt >= resp.rows[j].createdAt

\* An appointment listing whose first row was added before its second row and
\* is scheduled later.
C11_Witness ==
    /\ Listed(AppointmentListings)
    /\ Len(resp.rows) = 2
    /\ resp.rows[1].createdAt < resp.rows[2].createdAt
    /\ resp.rows[1].scheduledAt > resp.rows[2].scheduledAt

MarkedRead == resp.ep = "PUT /api/admin/contact-submissions/:id/read" /\ resp.status = 200
\* Marking the same submission read once more would leave the table as it is,
\* and the submission is read.
MarkedOnce ==
    /\ markContactSubmissionRead(resp.id) = contactSubmissions
    /\ \A c \in contactSubmissions : c.id = resp.id => c.isRead

\* C13: after a mark-read answered 200, applying it again to the same
\* submission leaves the stored state as it is; the call changes nothing but
\* isRead of the addressed row; a call on a submission that is already read is
\* answered 200 again (not 500) and changes nothing; and isRead never goes
\* back from true to false.
C13_MarkReadIdempotent ==
    [][/\ (Answers /\ MarkedRead')
          => /\ MarkedOnce'
             /\ Cardinality(contactSubmissions') = Cardinality(contactSubmissions)
             /\ \A c \in contactSubmissions :
                   [c EXCEPT !.isRead = @ \/ c.id = resp'.id] \in contactSubmissions'
       /\ (/\ Answers
           /\ resp'.ep = "PUT /api/admin/contact-submissions/:id/read"
           /\ SessionAdmits(resp')
           /\ StoredAdmin(resp'.sess.sub)
           /\ ~resp'.threw
           /\ \E c \in contactSubmissions : c.id = resp'.id /\ c.isRead)
          => /\ resp'.status = 200
             /\ contactSubmissions' = contactSubmissions
       /\ \A c \in contactSubmissions : c.isRead => c \in contactSubmissions']_vars

\* A mark-read was answered 200, the submission is read, and another
\* submission is stored unread.
C13_Witness ==
    /\ MarkedRead
    /\ \E c \in contactSubmissions : c.id = resp.id /\ c.isRead
    /\ \E c \in contactSubmissions : c.id # resp.id /\ ~c.isRead

\* The rows of table T with identity id.
RowsOf(T, id) == {u \in T : u.id = id}

C15_OwnersExist ==
    /\ \A a \in appointments : a.userId \in UserIdsStored
    /\ \A s \in serviceRequests : s.userId \in UserIdsStored
    /\ \A i \in invoices : i.userId \in UserIdsStored

\* The owner of an appointment asked to hand it to a user that has no row, and
\* was answered 500.
C15_Witness ==
    /\ resp.ep = "PUT /api/appointments/:id"
    /\ resp.req.userId = "bob"
    /\ "bob" \notin UserIdsStored
    /\ resp.status = 500
    /\ \E a \in appointments : a.id = resp.id /\ a.userId = resp.sess.sub

\* Both pools are open and exactly one of the two databases is down.
OnePoolDown ==
    /\ \A p \in Pools : pool[p].state = "open"
    /\ reachable["primary"] # reachable["replica"]

\* C16: GET /api/health/database, answered while exactly one of the two pools
\* is unreachable, is answered 200 (with a sub-result per pool in the body) and
\* never as one aggregate failure.
C16_OnePoolDownIs200 ==
    [][(Answers /\ resp'.ep = "GET /api/health/database" /\ OnePoolDown)
           => resp'.status = 200]_vars

\* C17: checkClusterHealth never throws and returns one result per pool; in
\* what it returns a pool is healthy exactly when the SELECT 1 on that pool
\* succeeded, and its error is null exactly then, whatever happened on the
\* other pool.
C17_HealthPerPool ==
    /\ health.pc \in {"idle", "primary", "replica", "returned"}
    /\ health.pc = "returned" =>
           /\ DOMAIN health.results = Pools
           /\ \A p \in Pools :
                  /\ health.results[p].healthy = (health.selected[p] = "succeeded")
                  /\ (health.results[p].error = "null") = (health.selected[p] = "succeeded")

\* checkClusterHealth returned after the query on the primary pool had failed
\* and the one on the replica pool had succeeded.
C17_Witness ==
    /\ health.pc = "returned"
    /\ health.selected = [primary |-> "failed", replica |-> "succeeded"]
    /\ ~health.results["primary"].healthy
    /\ health.results["replica"].healthy

\* The module finished loading: both pools were constructed.
Constructed == \A p \in Pools : pool[p].state # "none"

\* C18 as stated: the primary pool is on DATABASE_URL_PRIMARY and the replica
\* pool on DATABASE_URL_REPLICA, each on DATABASE_URL instead when (and only
\* when) its own variable is absent; without a primary string no pool exists.
C18_FallbackWhenAbsent ==
    /\ Constructed =>
           /\ pool["primary"].connectionString =
                  IF env.DATABASE_URL_PRIMARY = Unset THEN env.DATABASE_URL
                  ELSE env.DATABASE_URL_PRIMARY
           /\ pool["replica"].connectionString =
                  IF env.DATABASE_URL_REPLICA = Unset THEN env.DATABASE_URL
                  ELSE env.DATABASE_URL_REPLICA
    /\ proc = "crashed" => \A p \in Pools : pool[p] = NoPool

\* C18, amended: each pool is on its own variable when that variable holds a
\* non-empty string and on DATABASE_URL when it is absent or empty; with only
\* DATABASE_URL set both pools are on the same string; when neither
\* DATABASE_URL_PRIMARY nor DATABASE_URL holds a non-empty string loading fails
\* and no pool was constructed, and otherwise loading does not fail.
C18_FallbackWhenAbsentOrEmpty ==
    /\ Constructed =>
           /\ pool["primary"].connectionString =
                  IF env.DATABASE_URL_PRIMARY \in {Unset, ""} THEN env.DATABASE_URL
                  ELSE env.DATABASE_URL_PRIMARY
           /\ pool["replica"].connectionString =
                  IF env.DATABASE_URL_REPLICA \in {Unset, ""} THEN env.DATABASE_URL
                  ELSE env.DATABASE_URL_REPLICA
           /\ (env.DATABASE_URL_PRIMARY = Unset /\ env.DATABASE_URL_REPLICA = Unset)
                  => pool["primary"].connectionString = pool["replica"].connectionString
    /\ proc = "crashed" =>
           /\ \A p \in Pools : pool[p] = NoPool
           /\ env.DATABASE_URL_PRIMARY \in {Unset, ""}
           /\ env.DATABASE_URL \in {Unset, ""}
    /\ proc \in {"running", "exited"} =>
           ~(env.DATABASE_URL_PRIMARY \in {Unset, ""} /\ env.DATABASE_URL \in {Unset, ""})

\* The module loaded with DATABASE_URL_PRIMARY set to the empty string and the
\* primary pool is on DATABASE_URL.
C18_Witness ==
    /\ Constructed
    /\ env.DATABASE_URL_PRIMARY = ""
    /\ env.DATABASE_URL_REPLICA = "postgres://replica"
    /\ pool["primary"].connectionString = "postgres://single"
    /\ pool["replica"].connectionString = "postgres://replica"

\* C19: once a call of closeConnections has returned, every pool whose end()
\* did not fail in that call is closed: a failure to end one pool is logged
\* and the other pool is closed all the same.
C19_OtherPoolStillClosed ==
    \A sig \in Signals :
        handler[sig].pc = "returned" =>
            \A p \in Pools \ handler[sig].failed : pool[p].state = "ended"

\* C20: once a SIGTERM or SIGINT has been delivered (its closeConnections call
\* has started) the process eventually terminates, whether ending the pools
\* succeeds or fails.
C20_ShutdownCompletes ==
    \A sig \in Signals : (handler[sig].pc # "idle") ~> (proc = "exited")

\* C21: a pool never has more than its 20 connections checked out, and every
\* caller that waits for a connection is eventually handed one or fails.
C21_BoundedAndNoEndlessWait ==
    /\ [](\A p \in Pools : CheckedOut(held, acq, p) <= PoolMax)
    /\ \A r \in Requests :
           (acq[r].st = "waiting") ~> (acq[r].st \in {"acquired", "failed"})

\* A caller of the primary pool failed while all 20 connections of the pool
\* were checked out.
C21_Witness ==
    /\ CheckedOut(held, acq, "primary") = PoolMax
    /\ \E r \in Requests : acq[r] = [pool |-> "primary", st |-> "failed"]

CreateEndpoints == {"POST /api/appointments", "POST /api/service-requests", "POST /api/contact"}

TerminalStatuses == (200..299) \cup {400, 401, 403, 404, 500}

\* C24: a request that has been handled was sent exactly one response, with a
\* 2xx status or one of 400, 401, 403, 404, 500, also when a storage call
\* threw after a middleware had passed.
C24_OneTerminalResponse ==
    ~Idle => resp.sent = 1 /\ resp.status \in TerminalStatuses

\* An admin request passed both middlewares, then the handler's storage call
\* threw and the request was answered 500, once.
C24_Witness ==
    /\ resp.ep \in AdminEndpoints
    /\ "getUser" \in resp.calls
    /\ resp.calls # {"getUser"}
    /\ resp.threw
    /\ resp.status = 500
    /\ resp.sent = 1

\* C25: every row that POST /api/appointments or POST /api/service-requests
\* adds belongs to the requester, whatever userId the body carries.
C25_CreatedRowIsRequesters ==
    [][(Answers /\ resp'.ep \in {"POST /api/appointments", "POST /api/service-requests"})
           => /\ \A a \in appointments' \ appointments : a.userId = resp'.sess.sub
              /\ \A s \in serviceRequests' \ serviceRequests : s.userId = resp'.sess.sub
              /\ resp'.status = 201 =>
                     /\ resp'.rows[1].userId = resp'.sess.sub
                     /\ resp'.rows[1] \in appointments' \cup serviceRequests']_vars

\* A POST whose body names another user as userId was answered 201 and the new
\* row is the requester's.
C25_Witness ==
    /\ resp.ep \in {"POST /api/appointments", "POST /api/service-requests"}
    /\ resp.status = 201
    /\ resp.req.userId \notin {Absent, resp.sess.sub}
    /\ resp.rows[1].userId = resp.sess.sub
    /\ resp.rows[1] \in appointments \cup serviceRequests

\* C26: an admin request that passed isAuthenticated with a user id, and whose
\* getUser in isAdmin did not throw, is decided by the role stored when it
\* runs: it is answered 403 when that role is not "admin" and is let through
\* to the handler (no 401, no 403) when it is.
C26_RoleReadPerRequest ==
    [][(/\ Answers
        /\ resp'.ep \in AdminEndpoints
        /\ SessionAdmits(resp')
        /\ resp'.sess.sub # NoSub
        /\ ~(resp'.threw /\ resp'.calls = {"getUser"}))
       => /\ ~StoredAdmin(resp'.sess.sub) => resp'.status = 403
          /\ StoredAdmin(resp'.sess.sub) => resp'.status \notin {401, 403}]_vars

\* alice, seeded as admin, has been demoted to client, and her admin request
\* was answered 403.
C26_Witness ==
    /\ resp.ep \in AdminEndpoints
    /\ resp.sess.sub = "alice"
    /\ resp.status = 403
    /\ \E u \in users : u.id = "alice" /\ u.role = "client"

\* C27: once DELETE /api/appointments/:id has answered 204 for an id, no
\* stored appointment carries that id again, so that none is listed and every
\* later PUT or DELETE on the id finds nothing.
C27_DeletedStaysGone ==
    \A i \in deleted : \A a \in appointments : a.id # i

\* C28: a login (upsertUser with the profile claims) keeps every stored user,
\* and changes nothing of a stored user but firstName and updatedAt: role,
\* isActive and createdAt stay as they were.
C28_UpsertKeepsTheRest ==
    [][(Idle /\ resp' = resp /\ users' # users)
           => \A u \in users :
                  \E v \in users' :
                      /\ v.id = u.id
                      /\ v.role = u.role
                      /\ v.isActive = u.isActive
                      /\ v.createdAt = u.createdAt
                      /\ v.id \notin {w.id : w \in users' \ {v}}]_vars

\* The only step so far was a login of the seeded admin under another name:
\* she is still an admin.
C28_Witness ==
    /\ steps = 1
    /\ \E u \in users :
           /\ u.id = "alice"
           /\ u.firstName = "B"
           /\ u.role = "admin"
           /\ u.isActive
           /\ u.createdAt = 1

\* The user with id sub is stored and deactivated (in the state before the step).
StoredInactive(sub) == \E u \in users : u.id = sub /\ ~u.isActive

C30_BothStringsSet ==
    Constructed => \A p \in Pools : ~Falsy(pool[p].connectionString)

====
